---- MODULE Spec2Model ----
(***************************************************************************)
(* Model of der_die_das.py: the spreadsheet loader                         *)
(* (load_word_article_pairs) and the quiz controller (DerDieDasApp).       *)
(*                                                                         *)
(* Text is modelled as a sequence of one-character strings so that         *)
(* str.strip() and str.lower() do real work.  A cell of the sheet is a     *)
(* record [t, v]: t = "none" for an empty cell (Python None), t = "str"    *)
(* for a text cell whose characters are v.                                 *)
(***************************************************************************)
EXTENDS Integers, Sequences, FiniteSets, TLC

(***************************************************************************)
(* Bounds of the model.                                                    *)
(***************************************************************************)
MaxRows == 3
MaxCols == 3
MaxCells == 6
MaxPairs == 2
MaxSeen == 4
MaxPending == 2
MaxGap == 11
MaxBlock == 1

(***************************************************************************)
(* Text helpers.                                                           *)
(***************************************************************************)
UpperChars == <<"A","B","C","D","E","F","G","H","I","J","K","L","M",
                "N","O","P","Q","R","S","T","U","V","W","X","Y","Z">>
LowerChars == <<"a","b","c","d","e","f","g","h","i","j","k","l","m",
                "n","o","p","q","r","s","t","u","v","w","x","y","z">>
Whitespace == {" ", "\t", "\n"}

LowerChar(c) ==
    IF \E i \in 1..Len(UpperChars) : UpperChars[i] = c
    THEN LowerChars[CHOOSE i \in 1..Len(UpperChars) : UpperChars[i] = c]
    ELSE c

\* str.lower()
lower(s) == [i \in 1..Len(s) |-> LowerChar(s[i])]

RECURSIVE lstrip(_)
lstrip(s) ==
    IF s # <<>> /\ Head(s) \in Whitespace THEN lstrip(Tail(s)) ELSE s

RECURSIVE rstrip(_)
rstrip(s) ==
    IF s # <<>> /\ s[Len(s)] \in Whitespace
    THEN rstrip(SubSeq(s, 1, Len(s) - 1))
    ELSE s

\* str.strip()
strip(s) == rstrip(lstrip(s))

None == [t |-> "none", v |-> <<>>]
Str(s) == [t |-> "str", v |-> s]

\* _clean: None -> "", otherwise str(s).strip()
_clean(c) == IF c.t = "none" THEN <<>> ELSE strip(c.v)

valid_articles == { <<"d","e","r">>, <<"d","i","e">>, <<"d","a","s">> }

(***************************************************************************)
(* Reading the sheet.  A sheet is a sequence of rows, each a sequence of   *)
(* cells; rows past the end of the sheet read as empty.                    *)
(***************************************************************************)
EmptyStreakLimit == 10

\* ws[r]: the cell values of row r (1-based), empty past the last row
WsRow(ws, r) == IF r <= Len(ws) THEN ws[r] ELSE <<>>

\* a mutation of ScanRows: the loop goes on while empty_streak <= 10
RECURSIVE ScanRows_one_more(_, _, _, _)
ScanRows_one_more(ws, r, empty_streak, rows) ==
    IF empty_streak <= EmptyStreakLimit
    THEN LET row_vals == WsRow(ws, r) IN
         IF Len(row_vals) = 0 \/ \A i \in 1..Len(row_vals) : row_vals[i].t = "none"
         THEN ScanRows_one_more(ws, r + 1, empty_streak + 1, rows)
         ELSE ScanRows_one_more(ws, r + 1, 0, Append(rows, row_vals))
    ELSE rows

\* the openpyxl fallback scan: while empty_streak < 10
RECURSIVE ScanRows(_, _, _, _)
ScanRows(ws, r, empty_streak, rows) ==
    IF empty_streak < EmptyStreakLimit
    THEN LET row_vals == WsRow(ws, r) IN
         IF Len(row_vals) = 0
         THEN ScanRows(ws, r + 1, empty_streak + 1, rows)
         ELSE IF \A i \in 1..Len(row_vals) : row_vals[i].t = "none"
         THEN ScanRows(ws, r + 1, empty_streak + 1, rows)
         ELSE ScanRows(ws, r + 1, 0, Append(rows, row_vals))
    ELSE rows

\* the value of r when the fallback scan leaves its loop
RECURSIVE ScanEnd(_, _, _)
ScanEnd(ws, r, empty_streak) ==
    IF empty_streak < EmptyStreakLimit
    THEN LET row_vals == WsRow(ws, r) IN
         IF Len(row_vals) = 0
         THEN ScanEnd(ws, r + 1, empty_streak + 1)
         ELSE IF \A i \in 1..Len(row_vals) : row_vals[i].t = "none"
         THEN ScanEnd(ws, r + 1, empty_streak + 1)
         ELSE ScanEnd(ws, r + 1, 0)
    ELSE r

RECURSIVE MaxLen(_)
MaxLen(rows) ==
    IF rows = <<>> THEN 0
    ELSE LET m == MaxLen(Tail(rows)) IN
         IF Len(Head(rows)) > m THEN Len(Head(rows)) ELSE m

\* rows[i] += [None] * (maxc - len(rows[i]))
PadRows(rows) ==
    LET maxc == MaxLen(rows) IN
    [i \in 1..Len(rows) |->
        rows[i] \o [k \in 1..(maxc - Len(rows[i])) |-> None]]

\* df after the pandas branch: header=None, NaN -> None, a rectangular frame
PandasFrame(ws) == [iloc |-> TRUE, data |-> PadRows(ws)]

\* df after the fallback branch: _Wrapper(rows)
WrapperFrame(ws) == [iloc |-> FALSE, data |-> PadRows(ScanRows(ws, 1, 0, <<>>))]

\* _Wrapper.shape / DataFrame.shape
shape(df) == <<Len(df.data), MaxLen(df.data)>>

\* _Wrapper.get_col(c), c 0-based
get_col(df, c) ==
    [i \in 1..Len(df.data) |->
        IF c < Len(df.data[i]) THEN df.data[i][c + 1] ELSE None]

\* _Wrapper.get_row(r), r 0-based
get_row(df, r) == IF r < Len(df.data) THEN df.data[r + 1] ELSE <<>>

\* a mutation of KeepValid: the article is not tested
RECURSIVE KeepValid_anyarticle(_, _)
KeepValid_anyarticle(ws, as) ==
    IF ws = <<>> \/ as = <<>> THEN <<>>
    ELSE LET w == _clean(Head(ws))
             a == lower(_clean(Head(as)))
             rest == KeepValid_anyarticle(Tail(ws), Tail(as))
         IN IF w # <<>> THEN << <<w, a>> >> \o rest ELSE rest

\* for w, a in zip(ws, as): keep (clean w, lower clean a) when valid
RECURSIVE KeepValid(_, _)
KeepValid(ws, as) ==
    IF ws = <<>> \/ as = <<>> THEN <<>>
    ELSE LET w == _clean(Head(ws))
             a == lower(_clean(Head(as)))
             rest == KeepValid(Tail(ws), Tail(as))
         IN IF w # <<>> /\ a \in valid_articles
            THEN << <<w, a>> >> \o rest
            ELSE rest

\* a mutation of build_vertical_pairs: the two columns are read the wrong way round
build_vertical_pairs_swapped(df) ==
    IF df.iloc /\ shape(df)[2] < 2 THEN <<>>
    ELSE KeepValid(get_col(df, 1), get_col(df, 0))

build_vertical_pairs(df) ==
    IF df.iloc
    THEN \* df.iloc[:, 0] / df.iloc[:, 1] raise IndexError on a missing column
         IF shape(df)[2] < 2 THEN <<>>
         ELSE KeepValid(get_col(df, 0), get_col(df, 1))
    ELSE KeepValid(get_col(df, 0), get_col(df, 1))

\* a mutation of build_horizontal_pairs: a sheet of exactly two rows is rejected
build_horizontal_pairs_strict(df) ==
    IF shape(df)[1] <= 2 THEN <<>>
    ELSE KeepValid(get_row(df, 0), get_row(df, 1))

build_horizontal_pairs(df) ==
    IF shape(df)[1] < 2 THEN <<>>
    ELSE KeepValid(get_row(df, 0), get_row(df, 1))

\* a mutation of Choice: the orientation is compared case-sensitively
Choice_case_sensitive(orientation) ==
    IF orientation.t = "str" THEN orientation.v ELSE <<"a","u","t","o">>

\* choice = orientation.lower() if isinstance(orientation, str) else "auto"
Choice(orientation) ==
    IF orientation.t = "str" THEN lower(orientation.v) ELSE <<"a","u","t","o">>

\* a mutation of Chosen: auto prefers horizontal on a tie
Chosen_horizontal_on_tie(orientation, vertical_pairs, horizontal_pairs) ==
    LET choice == Choice(orientation) IN
    IF choice = <<"v","e","r","t","i","c","a","l">> THEN vertical_pairs
    ELSE IF choice = <<"h","o","r","i","z","o","n","t","a","l">> THEN horizontal_pairs
    ELSE IF Len(vertical_pairs) > Len(horizontal_pairs)
         THEN vertical_pairs
         ELSE horizontal_pairs

Chosen(orientation, vertical_pairs, horizontal_pairs) ==
    LET choice == Choice(orientation) IN
    IF choice = <<"v","e","r","t","i","c","a","l">> THEN vertical_pairs
    ELSE IF choice = <<"h","o","r","i","z","o","n","t","a","l">> THEN horizontal_pairs
    ELSE IF Len(vertical_pairs) >= Len(horizontal_pairs)
         THEN vertical_pairs
         ELSE horizontal_pairs

\* The file system / library environment of one call:
\*   "missing"    the path does not exist
\*   "pandas"     pandas reads the file
\*   "openpyxl"   pandas fails, openpyxl reads the file
\*   "unreadable" both readers fail
Environments == {"missing", "pandas", "openpyxl", "unreadable"}

\* the text of an exception raised with a fixed message; the text of a
\* RuntimeError goes on with the details of the library's own exception
Message(kind) ==
    IF kind = "ValueError"
    THEN <<"N", "o", " ", "v", "a", "l", "i", "d", " ", "(", "w", "o", "r", "d", ",", " ", "a", "r", "t", "i", "c", "l", "e", ")", " ", "p", "a", "i", "r", "s", " ", "f", "o", "u", "n", "d", ".">>
    ELSE IF kind = "RuntimeError"
    THEN <<"F", "a", "i", "l", "e", "d", " ", "t", "o", " ", "r", "e", "a", "d", " ", "E", "x", "c", "e", "l", " ", "w", "i", "t", "h", " ", "p", "a", "n", "d", "a", "s", " ", "o", "r", " ", "o", "p", "e", "n", "p", "y", "x", "l", ".", " ", "D", "e", "t", "a", "i", "l", "s", ":", " ">>
    ELSE <<>>

RaisedWith(kind, msg) == [kind |-> kind, pairs |-> <<>>, msg |-> msg]
Raised(kind) == RaisedWith(kind, Message(kind))
Returned(pairs) == [kind |-> "return", pairs |-> pairs, msg |-> <<>>]

\* a mutation of FileNotFoundMessage: the message does not name the path
FileNotFoundMessage_nopath(xlsx_path) ==
    <<"E", "x", "c", "e", "l", " ", "f", "i", "l", "e", " ", "n", "o", "t", " ", "f", "o", "u", "n", "d", ":", " ">>

\* f"Excel file not found: {xlsx_path}"
FileNotFoundMessage(xlsx_path) ==
    <<"E", "x", "c", "e", "l", " ", "f", "i", "l", "e", " ", "n", "o", "t", " ", "f", "o", "u", "n", "d", ":", " ">> \o xlsx_path

\* the reading strategies a call attempts, in order
Attempted(environment) ==
    IF environment = "missing" THEN <<>>
    ELSE IF environment = "pandas" THEN <<"pandas">>
    ELSE <<"pandas", "openpyxl">>

load_word_article_pairs(xlsx_path, ws, environment, orient) ==
    IF environment = "missing"
    THEN RaisedWith("FileNotFoundError", FileNotFoundMessage(xlsx_path))
    ELSE IF environment = "unreadable" THEN Raised("RuntimeError")
    ELSE LET df == IF environment = "pandas" THEN PandasFrame(ws) ELSE WrapperFrame(ws)
             vertical_pairs == build_vertical_pairs(df)
             horizontal_pairs == build_horizontal_pairs(df)
             chosen == Chosen(orient, vertical_pairs, horizontal_pairs)
         IN IF chosen = <<>> THEN Raised("ValueError") ELSE Returned(chosen)

(***************************************************************************)
(* The quiz controller.  The handlers are operators on a record s of the   *)
(* object's fields, the state of its widgets, the number of                *)
(* callbacks scheduled with self.after and not yet run (pending) and the   *)
(* exception the handler raised ("" for none; Tk reports it and the event  *)
(* loop goes on).  The fields drew, reshuffled say what the handler did.   *)
(***************************************************************************)
Articles == {"der", "die", "das"}
Keys == {"1", "2", "3", "space"}
Unset == "<unset>"

\* self.key_to_article
key_to_article == [k \in {"1", "2", "3"} |->
                     IF k = "1" THEN "der" ELSE IF k = "2" THEN "die" ELSE "das"]

\* str.upper() of an article
upper(a) == IF a = "der" THEN "DER" ELSE IF a = "die" THEN "DIE"
            ELSE IF a = "das" THEN "DAS" ELSE a

\* a mutation of round: the quotient is truncated
round_truncated(num, den) == num \div den

\* Python round(): score * 100 / seen rounded half to even
round(num, den) ==
    LET q == num \div den
        r == num % den
    IN IF 2 * r < den THEN q
       ELSE IF 2 * r > den THEN q + 1
       ELSE IF q % 2 = 0 THEN q ELSE q + 1

update_score_label(s) ==
    LET acc == IF s.seen = 0 THEN 0 ELSE round(s.score * 100, s.seen) IN
    [s EXCEPT !.score_label = [score |-> s.score, seen |-> s.seen, acc |-> acc]]

enable_options(s, enable) ==
    LET state == IF enable THEN "normal" ELSE "disabled" IN
    [s EXCEPT !.btn_der = state, !.btn_die = state, !.btn_das = state]

show_word(s, word) == [s EXCEPT !.word_label = word]

\* a mutation of shuffle: every place receives the same element
shuffle_repeating(seq, p) == [i \in 1..Len(seq) |-> seq[p[1]]]

\* random.shuffle(self.pairs): p is the permutation drawn
shuffle(seq, p) == [i \in 1..Len(seq) |-> seq[p[i]]]

\* a mutation of DeckExhausted: reshuffles one draw too late
DeckExhausted_late(s) == s.idx > Len(s.deck)

\* if self.idx >= len(self.deck)
DeckExhausted(s) == s.idx >= Len(s.deck)

next_question(s, p) ==
    LET s1 == IF s.waiting_for_next THEN [s EXCEPT !.waiting_for_next = FALSE] ELSE s
        s2 == IF DeckExhausted(s1)
              THEN [s1 EXCEPT !.pairs = shuffle(s1.pairs, p),
                              !.deck = shuffle(s1.pairs, p),
                              !.idx = 0,
                              !.status = <<"Deck completed. Shuffling and continuing...">>,
                              !.reshuffled = TRUE]
              ELSE s1
    IN \* self.deck[self.idx] raises IndexError past the end of the deck
       IF s2.idx >= Len(s2.deck)
       THEN [s2 EXCEPT !.error = "IndexError"]
       ELSE LET s3 == [s2 EXCEPT !.current_word = s2.deck[s2.idx + 1][1],
                                 !.current_art = s2.deck[s2.idx + 1][2],
                                 !.idx = s2.idx + 1,
                                 !.seen = s2.seen + 1,
                                 !.drew = TRUE]
                s4 == show_word(s3, s3.current_word)
                s5 == [s4 EXCEPT !.feedback = <<>>]
                s6 == enable_options(s5, TRUE)
                s7 == [s6 EXCEPT !.btn_next = "disabled"]
            IN update_score_label(s7)

\* start_quiz up to its call of next_question
StartReset(s, p) ==
    LET s1 == [s EXCEPT !.pairs = shuffle(s.pairs, p),
                        !.deck = shuffle(s.pairs, p),
                        !.idx = 0,
                        !.score = 0,
                        !.seen = 0,
                        !.waiting_for_next = FALSE,
                        !.btn_start = "disabled"]
        s2 == enable_options(s1, TRUE)
        s3 == [s2 EXCEPT !.btn_next = "disabled",
                         !.feedback = <<>>,
                         !.status = <<"Quiz started. Good luck!">>]
    IN update_score_label(s3)

\* a mutation of start_quiz: the first question is not drawn
start_quiz_nodraw(s, p) == StartReset(s, p)

\* next_question finds idx = 0 < len(deck) unless pairs is empty, so a second
\* shuffle inside start_quiz can only permute the empty list
start_quiz(s, p) == next_question(StartReset(s, p), p)

\* a mutation of SubmitCorrect: the auto-advance is not scheduled
SubmitCorrect_unscheduled(s, guess) ==
    update_score_label([s EXCEPT !.score = s.score + 1,
                                 !.feedback = <<"Correct!">>,
                                 !.status = <<"Nice! Pressed", upper(guess)>>])

\* the branch of submit for a correct guess
SubmitCorrect(s, guess) ==
    LET s1 == [s EXCEPT !.score = s.score + 1,
                        !.feedback = <<"Correct!">>,
                        !.status = <<"Nice! Pressed", upper(guess)>>]
        s2 == update_score_label(s1)
    IN \* self.after(150, self.next_question)
       [s2 EXCEPT !.pending = s2.pending + 1]

\* the branch of submit for an incorrect guess
\* a mutation of SubmitWrong: the Next button is not enabled
SubmitWrong_next_disabled(s) ==
    LET s1 == [s EXCEPT !.feedback = <<"Wrong. Correct answer:", upper(s.current_art)>>,
                        !.status = <<"Press any key or Next to continue.">>]
        s2 == enable_options(s1, FALSE)
        s3 == [s2 EXCEPT !.waiting_for_next = TRUE]
    IN update_score_label(s3)

SubmitWrong(s) ==
    LET s1 == [s EXCEPT !.feedback = <<"Wrong. Correct answer:", upper(s.current_art)>>,
                        !.status = <<"Press any key or Next to continue.">>]
        s2 == enable_options(s1, FALSE)
        s3 == [s2 EXCEPT !.btn_next = "normal", !.waiting_for_next = TRUE]
    IN update_score_label(s3)

\* submit past its guard: reading self.current_art before any question was
\* drawn raises AttributeError
SubmitEvaluated(s, guess) ==
    IF s.current_art = Unset THEN [s EXCEPT !.error = "AttributeError"]
    ELSE IF guess = s.current_art THEN SubmitCorrect(s, guess)
    ELSE SubmitWrong(s)

\* a mutation of submit: the guard on waiting_for_next is missing
submit_unguarded(s, guess) == SubmitEvaluated(s, guess)

submit(s, guess) ==
    IF s.waiting_for_next THEN s ELSE SubmitEvaluated(s, guess)

\* a mutation of on_key: the digit keys are routed to submit before the
\* waiting flag is looked at
on_key_digits_first(s, key, p) ==
    IF key \in {"1", "2", "3"} THEN submit(s, key_to_article[key])
    ELSE IF s.waiting_for_next THEN next_question(s, p)
    ELSE s

on_key(s, key, p) ==
    IF s.waiting_for_next THEN next_question(s, p)
    ELSE IF key \in {"1", "2", "3"} THEN submit(s, key_to_article[key])
    ELSE s

\* DerDieDasApp.__init__(pairs)
NewApp(pairs0) ==
    [pairs |-> pairs0, deck |-> <<>>, idx |-> 0, waiting_for_next |-> FALSE,
     score |-> 0, seen |-> 0,
     current_word |-> Unset, current_art |-> Unset,
     score_label |-> [score |-> 0, seen |-> 0, acc |-> 0],
     word_label |-> "-",
     btn_start |-> "normal", btn_next |-> "disabled",
     btn_der |-> "disabled", btn_die |-> "disabled", btn_das |-> "disabled",
     feedback |-> <<>>, status |-> <<"Ready.">>,
     pending |-> 0, error |-> "", drew |-> FALSE, reshuffled |-> FALSE]

(***************************************************************************)
(* State.                                                                  *)
(***************************************************************************)
VARIABLES
    \* one call of load_word_article_pairs
    phase,              \* "call": about to run, "done": returned or raised,
                        \* "quiz": the application is running
    xlsx_path,          \* the path argument
    attempted,          \* the reading strategies the call attempted
    sheet,              \* the rows of the active worksheet
    environment,        \* see Environments
    orientation,        \* the orientation argument
    loaded,             \* the outcome of the call
    \* DerDieDasApp
    pairs, deck, idx, waiting_for_next, score, seen,
    current_word, current_art,
    score_label, word_label,
    btn_start, btn_next, btn_der, btn_die, btn_das,
    feedback, status,
    pending,            \* callbacks scheduled by self.after, not yet run
    error,              \* exception raised by the last handler, "" if none
    drew,               \* the last handler drew a question
    reshuffled,         \* the last handler reshuffled inside next_question
    \* history
    last,               \* the last handler run and its argument
    prev,               \* the application state before the last handler
    shown               \* score and seen when the current question was presented

loaderVars == <<phase, xlsx_path, attempted, sheet, environment, orientation, loaded>>

appVars == <<pairs, deck, idx, waiting_for_next, score, seen,
             current_word, current_art, score_label, word_label,
             btn_start, btn_next, btn_der, btn_die, btn_das,
             feedback, status, pending, error, drew, reshuffled>>

vars == <<phase, xlsx_path, attempted, sheet, environment, orientation, loaded,
          pairs, deck, idx, waiting_for_next, score, seen,
          current_word, current_art, score_label, word_label,
          btn_start, btn_next, btn_der, btn_die, btn_das,
          feedback, status, pending, error, drew, reshuffled,
          last, prev, shown>>

\* the application state as the record the handlers work on
Self ==
    [pairs |-> pairs, deck |-> deck, idx |-> idx,
     waiting_for_next |-> waiting_for_next, score |-> score, seen |-> seen,
     current_word |-> current_word, current_art |-> current_art,
     score_label |-> score_label, word_label |-> word_label,
     btn_start |-> btn_start, btn_next |-> btn_next,
     btn_der |-> btn_der, btn_die |-> btn_die, btn_das |-> btn_das,
     feedback |-> feedback, status |-> status,
     pending |-> pending, error |-> error,
     drew |-> drew, reshuffled |-> reshuffled]

\* the state a handler starts from: no exception yet, nothing done yet
Entry == [Self EXCEPT !.error = "", !.drew = FALSE, !.reshuffled = FALSE]

SetApp(s) ==
    /\ pairs' = s.pairs
    /\ deck' = s.deck
    /\ idx' = s.idx
    /\ waiting_for_next' = s.waiting_for_next
    /\ score' = s.score
    /\ seen' = s.seen
    /\ current_word' = s.current_word
    /\ current_art' = s.current_art
    /\ score_label' = s.score_label
    /\ word_label' = s.word_label
    /\ btn_start' = s.btn_start
    /\ btn_next' = s.btn_next
    /\ btn_der' = s.btn_der
    /\ btn_die' = s.btn_die
    /\ btn_das' = s.btn_das
    /\ feedback' = s.feedback
    /\ status' = s.status
    /\ pending' = s.pending
    /\ error' = s.error
    /\ drew' = s.drew
    /\ reshuffled' = s.reshuffled

\* one handler ran to completion: op(arg) took the application to result
Handled(op, arg, result) ==
    \E s \in {result} :
        /\ SetApp(s)
        /\ last' = [op |-> op, arg |-> arg]
        /\ prev' = Self @@ [shown |-> shown]
        /\ shown' = IF s.drew THEN [score |-> s.score, seen |-> s.seen] ELSE shown
        /\ UNCHANGED loaderVars

Shuffles == Permutations(1..Len(pairs))

(***************************************************************************)
(* The inputs.                                                             *)
(***************************************************************************)
PairValues == { <<"Haus", "das">>, <<"Mann", "der">>, <<"Frau", "die">> }
PairLists == UNION { [1..n -> PairValues] : n \in 1..MaxPairs }

CellValues ==
    { None,
      Str(<<" ", " ">>),
      Str(<<" ","D","e","r","\t">>),
      Str(<<"d","i","e">>),
      Str(<<"d","e","n">>) }

Shapes == { sh \in (0..MaxRows) \X (1..MaxCols) : sh[1] * sh[2] <= MaxCells }
Sheets == UNION { [1..sh[1] -> [1..sh[2] -> CellValues]] : sh \in Shapes }

\* main loads "words.xlsx"
WordsXlsx == <<"w", "o", "r", "d", "s", ".", "x", "l", "s", "x">>
Paths == { WordsXlsx, <<"x", "/", "w", ".", "x", "l", "s", "x">> }

Orientations ==
    { Str(<<"a","u","t","o">>),
      Str(<<"V","e","r","t","i","c","a","l">>),
      Str(<<"h","o","r","i","z","o","n","t","a","l">>),
      None }

(***************************************************************************)
(* The application driven by its user: clicks reach a handler only while   *)
(* its button is enabled, keys always reach on_key, and a scheduled        *)
(* callback runs when the event loop gets to it.                           *)
(***************************************************************************)
Init ==
    /\ phase = "quiz"
    /\ xlsx_path = WordsXlsx
    /\ attempted = <<>>
    /\ sheet = <<>>
    /\ environment = "pandas"
    /\ orientation = None
    /\ loaded = Raised("")
    /\ \E pairs0 \in PairLists :
         /\ pairs = pairs0
         /\ deck = <<>>
         /\ idx = 0
         /\ waiting_for_next = FALSE
         /\ score = 0
         /\ seen = 0
         /\ current_word = Unset
         /\ current_art = Unset
         /\ score_label = NewApp(pairs0).score_label
         /\ word_label = NewApp(pairs0).word_label
         /\ btn_start = NewApp(pairs0).btn_start
         /\ btn_next = NewApp(pairs0).btn_next
         /\ btn_der = NewApp(pairs0).btn_der
         /\ btn_die = NewApp(pairs0).btn_die
         /\ btn_das = NewApp(pairs0).btn_das
         /\ feedback = NewApp(pairs0).feedback
         /\ status = NewApp(pairs0).status
         /\ pending = 0
         /\ error = ""
         /\ drew = FALSE
         /\ reshuffled = FALSE
         /\ last = [op |-> "__init__", arg |-> ""]
         /\ prev = NewApp(pairs0) @@ [shown |-> [score |-> 0, seen |-> 0]]
         /\ shown = [score |-> 0, seen |-> 0]

\* the bounds on the user's events
MayAct == phase = "quiz" /\ seen < MaxSeen /\ pending < MaxPending

ClickStart ==
    /\ MayAct
    /\ btn_start = "normal"
    /\ \E e \in {Entry}, p \in Shuffles :
         Handled("start_quiz", "", start_quiz(e, p))

ClickNext ==
    /\ MayAct
    /\ btn_next = "normal"
    /\ \E e \in {Entry}, p \in Shuffles :
         Handled("next_question", "", next_question(e, p))

ClickArticle(a) ==
    /\ MayAct
    /\ \/ a = "der" /\ btn_der = "normal"
       \/ a = "die" /\ btn_die = "normal"
       \/ a = "das" /\ btn_das = "normal"
    /\ \E e \in {Entry} : Handled("submit", a, submit(e, a))

KeyPress(key) ==
    /\ MayAct
    /\ \E e \in {Entry}, p \in Shuffles :
         Handled("on_key", key, on_key(e, key, p))

\* the event loop runs one callback scheduled by self.after(150, self.next_question)
AfterCallback ==
    /\ phase = "quiz"
    /\ pending > 0
    /\ \E e \in {[Entry EXCEPT !.pending = pending - 1]}, p \in Shuffles :
         Handled("after", "", next_question(e, p))

Next ==
    \/ ClickStart
    \/ ClickNext
    \/ \E a \in Articles : ClickArticle(a)
    \/ \E key \in Keys : KeyPress(key)
    \/ AfterCallback

Spec == Init /\ [][Next]_vars

\* a scheduled callback is eventually run by the event loop
FairSpec == Spec /\ WF_vars(AfterCallback)

(***************************************************************************)
(* The application driven through its methods: any handler may be called   *)
(* at any time, whatever the state of the buttons.                         *)
(***************************************************************************)
CallStart ==
    /\ MayAct
    /\ \E e \in {Entry}, p \in Shuffles :
         Handled("start_quiz", "", start_quiz(e, p))

CallNext ==
    /\ MayAct
    /\ \E e \in {Entry}, p \in Shuffles :
         Handled("next_question", "", next_question(e, p))

CallSubmit(guess) ==
    /\ MayAct
    /\ \E e \in {Entry} : Handled("submit", guess, submit(e, guess))

NextApi ==
    \/ CallStart
    \/ CallNext
    \/ \E guess \in Articles : CallSubmit(guess)
    \/ \E key \in Keys : KeyPress(key)
    \/ AfterCallback

SpecApi == Init /\ [][NextApi]_vars

(***************************************************************************)
(* One call of load_word_article_pairs, as main makes it before the        *)
(* application exists: the sheet, the environment and the orientation are  *)
(* the inputs.                                                             *)
(***************************************************************************)
AppIs(s) ==
    /\ pairs = s.pairs
    /\ deck = s.deck
    /\ idx = s.idx
    /\ waiting_for_next = s.waiting_for_next
    /\ score = s.score
    /\ seen = s.seen
    /\ current_word = s.current_word
    /\ current_art = s.current_art
    /\ score_label = s.score_label
    /\ word_label = s.word_label
    /\ btn_start = s.btn_start
    /\ btn_next = s.btn_next
    /\ btn_der = s.btn_der
    /\ btn_die = s.btn_die
    /\ btn_das = s.btn_das
    /\ feedback = s.feedback
    /\ status = s.status
    /\ pending = s.pending
    /\ error = s.error
    /\ drew = s.drew
    /\ reshuffled = s.reshuffled

InitLoad ==
    /\ phase = "call"
    /\ xlsx_path \in Paths
    /\ attempted = <<>>
    /\ environment \in Environments
    \* a file that is missing or that no library can read has no sheet
    /\ sheet \in (IF environment \in {"pandas", "openpyxl"} THEN Sheets ELSE {<<>>})
    /\ orientation \in Orientations
    /\ loaded = Raised("")
    /\ AppIs(NewApp(<<>>))
    /\ last = [op |-> "", arg |-> ""]
    /\ prev = NewApp(<<>>) @@ [shown |-> [score |-> 0, seen |-> 0]]
    /\ shown = [score |-> 0, seen |-> 0]

Load ==
    /\ phase = "call"
    /\ phase' = "done"
    /\ loaded' = load_word_article_pairs(xlsx_path, sheet, environment, orientation)
    /\ attempted' = Attempted(environment)
    /\ UNCHANGED <<xlsx_path, sheet, environment, orientation>>
    /\ UNCHANGED appVars
    /\ UNCHANGED <<last, prev, shown>>

NextLoad == Load

SpecLoad == InitLoad /\ [][NextLoad]_vars

(***************************************************************************)
(* One call of load_word_article_pairs on a long sheet read by the         *)
(* openpyxl fallback: a gap of empty rows, a block of rows, a second gap   *)
(* and a second block.  The rows of a gap either have no cells or only     *)
(* empty cells.                                                            *)
(***************************************************************************)
DataRows ==
    { << Str(<<"d","e","n">>), Str(<<"d","i","e">>) >>,
      << Str(<<" ","D","e","r","\t">>), Str(<<"d","i","e">>) >>,
      << Str(<<" ", " ">>), None >> }
EmptyRows == { <<>>, <<None, None>> }

Blocks == UNION { [1..n -> DataRows] : n \in 0..MaxBlock }
Gap(n, row) == [i \in 1..n |-> row]

GapSheets ==
    { Gap(g1, e) \o b1 \o Gap(g2, e) \o b2 :
        g1 \in 0..MaxGap, g2 \in 0..MaxGap, e \in EmptyRows, b1 \in Blocks, b2 \in Blocks }

InitScan ==
    /\ phase = "call"
    /\ xlsx_path = WordsXlsx
    /\ attempted = <<>>
    /\ environment = "openpyxl"
    /\ sheet \in GapSheets
    \* main calls the loader with orientation="auto"
    /\ orientation = Str(<<"a","u","t","o">>)
    /\ loaded = Raised("")
    /\ AppIs(NewApp(<<>>))
    /\ last = [op |-> "", arg |-> ""]
    /\ prev = NewApp(<<>>) @@ [shown |-> [score |-> 0, seen |-> 0]]
    /\ shown = [score |-> 0, seen |-> 0]

NextScan == Load

SpecScan == InitScan /\ [][NextScan]_vars

(***************************************************************************)
(* Vocabulary of the properties.                                           *)
(***************************************************************************)
\* the article the last handler evaluated as a guess, "" if it evaluated none
LastGuess ==
    IF prev.waiting_for_next \/ prev.current_art = Unset THEN ""
    ELSE IF last.op = "submit" THEN last.arg
    ELSE IF last.op = "on_key" /\ last.arg \in DOMAIN key_to_article
         THEN key_to_article[last.arg]
    ELSE ""

WrongGuess == LastGuess # "" /\ LastGuess # prev.current_art
CorrectGuess == LastGuess # "" /\ LastGuess = prev.current_art

\* the user's acknowledgment: the Next button or any key
Acknowledged == last.op \in {"next_question", "on_key"}

OptionsEnabled == btn_der = "normal" /\ btn_die = "normal" /\ btn_das = "normal"
OptionsDisabled == btn_der = "disabled" /\ btn_die = "disabled" /\ btn_das = "disabled"

Count(seq, v) == Cardinality({ i \in 1..Len(seq) : seq[i] = v })
IsPermutation(a, b) ==
    /\ Len(a) = Len(b)
    /\ \A i \in 1..Len(b) : Count(a, b[i]) = Count(b, b[i])

(***************************************************************************)
(* C1: after an incorrect guess while Running the score is unchanged,      *)
(* waiting_for_next is true and the article buttons are disabled; and      *)
(* while waiting_for_next is true only an acknowledgment (Next or a key)   *)
(* leaves that state: any other event keeps waiting_for_next true, draws   *)
(* no question and keeps seen and the current word.                        *)
(***************************************************************************)
C1_WaitsForAcknowledgment ==
    /\ WrongGuess =>
         /\ score = prev.score
         /\ waiting_for_next
         /\ OptionsDisabled
    /\ (prev.waiting_for_next /\ ~Acknowledged) =>
         /\ waiting_for_next
         /\ ~drew
         /\ seen = prev.seen
         /\ current_word = prev.current_word
         /\ current_art = prev.current_art

(***************************************************************************)
(* C2: when a question is presented after a correct answer to the          *)
(* previous one, score and seen are each exactly 1 above their values at   *)
(* the moment the previous question was presented.                         *)
(***************************************************************************)
C2_CorrectCountsOnce ==
    (drew /\ last.op # "start_quiz" /\ prev.score > prev.shown.score) =>
        /\ score = prev.shown.score + 1
        /\ seen = prev.shown.seen + 1

(***************************************************************************)
(* C3: submit called while waiting_for_next is true changes nothing: not   *)
(* the score, seen, the deck, idx, the current word and article,           *)
(* waiting_for_next, the buttons or the labels, and no callback is         *)
(* scheduled.                                                              *)
(***************************************************************************)
C3_SubmitIgnoredWhileWaiting ==
    (last.op = "submit" /\ prev.waiting_for_next) =>
        /\ score = prev.score
        /\ seen = prev.seen
        /\ pairs = prev.pairs
        /\ deck = prev.deck
        /\ idx = prev.idx
        /\ current_word = prev.current_word
        /\ current_art = prev.current_art
        /\ waiting_for_next = prev.waiting_for_next
        /\ btn_start = prev.btn_start
        /\ btn_next = prev.btn_next
        /\ btn_der = prev.btn_der
        /\ btn_die = prev.btn_die
        /\ btn_das = prev.btn_das
        /\ feedback = prev.feedback
        /\ status = prev.status
        /\ score_label = prev.score_label
        /\ word_label = prev.word_label
        /\ pending = prev.pending
        /\ error = ""

\* submit was called with the right article while waiting
C3_Witness ==
    /\ last.op = "submit"
    /\ prev.waiting_for_next
    /\ last.arg = prev.current_art
    /\ prev.pending = 0

(***************************************************************************)
(* C4: no draw runs past the end of the deck; after a draw                 *)
(* 1 <= idx <= len(deck) = len(pairs) and the current word and article     *)
(* are deck[idx-1]; the deck is shuffled afresh with idx reset (by         *)
(* start_quiz for the first draw, by next_question afterwards) exactly on  *)
(* the draws number k*len(pairs)+1 since the start.                        *)
(***************************************************************************)
C4_DeckCycling ==
    /\ error # "IndexError"
    /\ drew =>
         /\ 1 <= idx
         /\ idx <= Len(deck)
         /\ Len(deck) = Len(pairs)
         /\ <<current_word, current_art>> = deck[idx]
         /\ (reshuffled \/ last.op = "start_quiz") <=> ((seen - 1) % Len(pairs) = 0)
         /\ (reshuffled \/ last.op = "start_quiz") => idx = 1

\* the draw after a whole deck of two pairs: reshuffled, pointer back at 1
C4_Witness ==
    /\ drew
    /\ reshuffled
    /\ Len(pairs) = 2
    /\ seen = 3
    /\ prev.idx = 2
    /\ idx = 1

(***************************************************************************)
(* C5: once a correct guess has been accepted for the current question,   *)
(* the next question is eventually drawn with no help from the user,       *)
(* given that the event loop runs scheduled callbacks: the quiz does not   *)
(* stay on a question it has credited.                                     *)
(***************************************************************************)
Credited == score > shown.score

C5_AutoAdvance == Credited ~> ~Credited

\* the callback scheduled by a correct guess has run and drawn a question
C5_Witness ==
    /\ last.op = "after"
    /\ drew
    /\ prev.score = prev.shown.score + 1
    /\ prev.pending = 1
    /\ seen = prev.seen + 1

(***************************************************************************)
(* C6: start from Idle leaves the deck a permutation of the pair set,      *)
(* score 0, waiting_for_next false, exactly one question drawn (idx = 1,   *)
(* seen = 1, the current pair is deck[0]), the article buttons enabled     *)
(* and Start and Next disabled.                                            *)
(***************************************************************************)
C6_StartFromIdle ==
    (/\ last.op = "start_quiz"
     /\ prev.deck = <<>>
     /\ prev.score = 0
     /\ prev.seen = 0
     /\ ~prev.waiting_for_next) =>
        /\ IsPermutation(deck, prev.pairs)
        /\ score = 0
        /\ ~waiting_for_next
        /\ idx = 1
        /\ seen = 1
        /\ <<current_word, current_art>> = deck[1]
        /\ OptionsEnabled
        /\ btn_start = "disabled"
        /\ btn_next = "disabled"
        /\ error = ""

\* start ran from Idle on two different pairs and put the second one first
C6_Witness ==
    /\ last.op = "start_quiz"
    /\ prev.deck = <<>>
    /\ prev.seen = 0
    /\ Len(prev.pairs) = 2
    /\ prev.pairs[1] # prev.pairs[2]
    /\ deck[1] = prev.pairs[2]
    /\ seen = 1

(***************************************************************************)
(* Vocabulary of the loader's properties.                                  *)
(***************************************************************************)
Readable == environment \in {"pandas", "openpyxl"}

\* the frame the builders are given
Frame == IF environment = "pandas" THEN PandasFrame(sheet) ELSE WrapperFrame(sheet)

\* the orientation argument is neither 'vertical' nor 'horizontal'
AutoMode ==
    \/ orientation.t # "str"
    \/ lower(orientation.v) \notin { <<"v","e","r","t","i","c","a","l">>,
                                      <<"h","o","r","i","z","o","n","t","a","l">> }

\* the pair a word cell and an article cell stand for
PairOf(w, a) == <<_clean(w), lower(_clean(a))>>
ValidWord(w) == _clean(w) # <<>>
ValidArticle(a) == lower(_clean(a)) \in valid_articles

(***************************************************************************)
(* C7: with orientation 'auto', or any other value that is not 'vertical'  *)
(* or 'horizontal' (a non-string included), the loader returns the         *)
(* horizontal candidate list when it has strictly more pairs than the      *)
(* vertical one and the vertical candidate list otherwise, so also on a    *)
(* tie of non-zero counts.                                                 *)
(***************************************************************************)
C7_AutoOrientation ==
    (phase = "done" /\ Readable /\ AutoMode) =>
        LET df == Frame
            V == build_vertical_pairs(df)
            H == build_horizontal_pairs(df)
        IN /\ Len(H) > Len(V) => loaded = Returned(H)
           /\ (Len(H) <= Len(V) /\ V # <<>>) => loaded = Returned(V)
           /\ (loaded.kind = "return" /\ loaded.pairs # V) => Len(H) > Len(V)

\* a tie of two pairs each, the two readings differ, a non-string orientation
C7_Witness ==
    /\ phase = "done"
    /\ Readable
    /\ orientation = None
    /\ LET df == Frame
           V == build_vertical_pairs(df)
           H == build_horizontal_pairs(df)
       IN /\ Len(V) = 2
          /\ Len(H) = 2
          /\ V # H
          /\ loaded = Returned(V)

(***************************************************************************)
(* C8, as claimed: for a sheet of exactly two rows, the first holding      *)
(* N >= 1 non-empty words and the second N articles (der, die, das up to   *)
(* case and whitespace), the loader in auto mode returns exactly the N     *)
(* pairs (word, lowercased article) in column order, whatever the words.   *)
(***************************************************************************)
WellFormedHorizontal ==
    /\ Len(sheet) = 2
    /\ Len(sheet[1]) >= 1
    /\ Len(sheet[2]) = Len(sheet[1])
    /\ \A j \in 1..Len(sheet[1]) : ValidWord(sheet[1][j]) /\ ValidArticle(sheet[2][j])

ColumnPairs == [j \in 1..Len(sheet[1]) |-> PairOf(sheet[1][j], sheet[2][j])]

C8_HorizontalSheet ==
    (phase = "done" /\ Readable /\ AutoMode /\ WellFormedHorizontal) =>
        loaded = Returned(ColumnPairs)

(***************************************************************************)
(* C8, amended: the same, except for a sheet of N = 2 columns whose        *)
(* second word is spelled like an article: there both readings give two    *)
(* pairs, the tie goes to vertical and the loader returns the row-wise     *)
(* pairs (word_1, word_2), (article_1, article_2).                         *)
(***************************************************************************)
SecondWordIsArticle == Len(sheet[1]) = 2 /\ ValidArticle(sheet[1][2])

C8_HorizontalSheetUnlessTie ==
    (phase = "done" /\ Readable /\ AutoMode /\ WellFormedHorizontal) =>
        IF SecondWordIsArticle
        THEN loaded = Returned(<< PairOf(sheet[1][1], sheet[1][2]),
                                  PairOf(sheet[2][1], sheet[2][2]) >>)
        ELSE loaded = Returned(ColumnPairs)

\* two columns, the first word spelled like an article, the second not
C8_Witness ==
    /\ phase = "done"
    /\ Readable
    /\ AutoMode
    /\ WellFormedHorizontal
    /\ Len(sheet[1]) = 2
    /\ ValidArticle(sheet[1][1])
    /\ ~ValidArticle(sheet[1][2])
    /\ loaded = Returned(ColumnPairs)

(***************************************************************************)
(* C9: for a sheet of two columns and N >= 1 rows, each a non-empty word   *)
(* and an article (der, die, das up to case and whitespace), the loader    *)
(* in auto mode returns exactly the N pairs (word, lowercased article) in  *)
(* row order.                                                              *)
(***************************************************************************)
WellFormedVertical ==
    /\ Len(sheet) >= 1
    /\ \A i \in 1..Len(sheet) :
         /\ Len(sheet[i]) = 2
         /\ ValidWord(sheet[i][1])
         /\ ValidArticle(sheet[i][2])

RowPairs == [i \in 1..Len(sheet) |-> PairOf(sheet[i][1], sheet[i][2])]

C9_VerticalSheet ==
    (phase = "done" /\ Readable /\ AutoMode /\ WellFormedVertical) =>
        loaded = Returned(RowPairs)

\* three rows whose articles need trimming and lowercasing, read by the fallback
C9_Witness ==
    /\ phase = "done"
    /\ environment = "openpyxl"
    /\ AutoMode
    /\ WellFormedVertical
    /\ Len(sheet) = 3
    /\ sheet[1][2] = Str(<<" ","D","e","r","\t">>)
    /\ sheet[2][1] # sheet[1][1]
    /\ loaded = Returned(RowPairs)
    /\ loaded.pairs[1][2] = <<"d","e","r">>

(***************************************************************************)
(* C10: every returned pair has a word that is non-empty and trimmed and   *)
(* an article that is exactly der, die or das; the result is, in order,    *)
(* the rows (vertical) or columns (horizontal) whose word is non-empty     *)
(* and whose article is valid: a row or column with any other article      *)
(* contributes nothing.                                                    *)
(***************************************************************************)
\* the (word cell, article cell) candidates of each reading of a grid
RowCandidates(grid) ==
    [i \in 1..Len(grid) |->
        <<grid[i][1], IF Len(grid[i]) >= 2 THEN grid[i][2] ELSE None>>]
ColumnCandidates(grid) ==
    IF Len(grid) >= 2
    THEN [j \in 1..Len(grid[1]) |-> <<grid[1][j], grid[2][j]>>]
    ELSE <<>>

Kept(cand) == { i \in 1..Len(cand) : ValidWord(cand[i][1]) /\ ValidArticle(cand[i][2]) }

\* result is exactly the kept candidates, in their order
IsFiltered(result, cand) ==
    LET kept == Kept(cand) IN
    /\ Len(result) = Cardinality(kept)
    /\ \A i \in kept :
         result[Cardinality({ k \in kept : k <= i })] = PairOf(cand[i][1], cand[i][2])

C10_OnlyValidPairs ==
    (phase = "done" /\ loaded.kind = "return") =>
        /\ \A k \in 1..Len(loaded.pairs) :
             /\ loaded.pairs[k][1] # <<>>
             /\ strip(loaded.pairs[k][1]) = loaded.pairs[k][1]
             /\ loaded.pairs[k][2] \in valid_articles
        /\ LET grid == Frame.data IN
           \/ IsFiltered(loaded.pairs, RowCandidates(grid))
           \/ IsFiltered(loaded.pairs, ColumnCandidates(grid))

\* the middle one of three rows has a word but 'den' for an article and is dropped
C10_Witness ==
    /\ phase = "done"
    /\ loaded.kind = "return"
    /\ LET rows == RowCandidates(Frame.data) IN
       /\ Len(rows) = 3
       /\ Kept(rows) = {1, 3}
       /\ ValidWord(rows[2][1])
       /\ rows[2][2] = Str(<<"d","e","n">>)
       /\ loaded.pairs = << PairOf(rows[1][1], rows[1][2]), PairOf(rows[3][1], rows[3][2]) >>
       /\ loaded.pairs[1] # loaded.pairs[2]

(***************************************************************************)
(* C11: with orientation 'vertical' or 'horizontal', compared without      *)
(* regard to case, the loader uses that reading's candidate list and       *)
(* never the other one; whenever the chosen list is empty, forced or       *)
(* auto, it raises the no-valid-pairs error (ValueError), so a returned    *)
(* list is never empty.                                                    *)
(***************************************************************************)
Forced(name) == orientation.t = "str" /\ lower(orientation.v) = name

C11_ForcedOrientation ==
    (phase = "done" /\ Readable) =>
        LET df == Frame
            V == build_vertical_pairs(df)
            H == build_horizontal_pairs(df)
        IN /\ Forced(<<"v","e","r","t","i","c","a","l">>) =>
                loaded = IF V = <<>> THEN Raised("ValueError") ELSE Returned(V)
           /\ Forced(<<"h","o","r","i","z","o","n","t","a","l">>) =>
                loaded = IF H = <<>> THEN Raised("ValueError") ELSE Returned(H)
           /\ (AutoMode /\ V = <<>> /\ H = <<>>) => loaded = Raised("ValueError")
           /\ loaded.kind = "return" => loaded.pairs # <<>>
           /\ loaded.kind \in {"return", "ValueError"}

\* 'Vertical' is forced on a sheet only the horizontal reading can use: no fallback
C11_Witness ==
    /\ phase = "done"
    /\ Readable
    /\ orientation = Str(<<"V","e","r","t","i","c","a","l">>)
    /\ build_vertical_pairs(Frame) = <<>>
    /\ Len(build_horizontal_pairs(Frame)) = 2
    /\ loaded = Raised("ValueError")

(***************************************************************************)
(* C12: after every handler (start, a draw, a correct or an incorrect      *)
(* guess) the score label shows the current score and seen, and the        *)
(* accuracy it shows is 0 when seen = 0 and otherwise an integer nearest   *)
(* to score * 100 / seen.                                                  *)
(***************************************************************************)
C12_AccuracyDisplayed ==
    /\ score_label.score = score
    /\ score_label.seen = seen
    /\ seen = 0 => score_label.acc = 0
    /\ seen > 0 =>
         /\ 2 * (score_label.acc * seen - 100 * score) <= seen
         /\ 2 * (100 * score - score_label.acc * seen) <= seen

\* two of three right: 66.67 is shown as 67 after the guess that made it so
C12_Witness ==
    /\ CorrectGuess
    /\ seen = 3
    /\ score = 2
    /\ prev.score_label.acc = 33
    /\ score_label = [score |-> 2, seen |-> 3, acc |-> 67]

(***************************************************************************)
(* C13: while waiting for an acknowledgment every key, 1, 2 and 3          *)
(* included, only acknowledges: waiting_for_next is cleared, the next      *)
(* question is drawn and the score is unchanged; while Running and not     *)
(* waiting the keys 1, 2, 3 do exactly what submit('der'), submit('die'),  *)
(* submit('das') do and every other key changes nothing.                   *)
(***************************************************************************)
\* the application as the last handler found it
Before ==
    [f \in DOMAIN Self |->
        IF f = "error" THEN ""
        ELSE IF f \in {"drew", "reshuffled"} THEN FALSE
        ELSE prev[f]]

ArticleOfKey(key) ==
    IF key = "1" THEN "der" ELSE IF key = "2" THEN "die" ELSE "das"

C13_KeyRouting ==
    last.op = "on_key" =>
        /\ prev.waiting_for_next =>
             /\ ~waiting_for_next
             /\ drew
             /\ seen = prev.seen + 1
             /\ score = prev.score
             /\ pending = prev.pending
             /\ error = ""
        /\ (~prev.waiting_for_next /\ prev.current_art # Unset
              /\ last.arg \in {"1", "2", "3"}) =>
             Self = submit(Before, ArticleOfKey(last.arg))
        /\ (~prev.waiting_for_next /\ last.arg \notin {"1", "2", "3"}) =>
             Self = Before

\* the key of the right article, pressed while waiting, only acknowledges
C13_Witness ==
    /\ last.op = "on_key"
    /\ prev.waiting_for_next
    /\ prev.current_art = ArticleOfKey(last.arg)
    /\ last.arg = "2"
    /\ drew
    /\ score = prev.score

(***************************************************************************)
(* C14: the fallback scan stops at the first run of 10 consecutive         *)
(* fully-empty rows: the rows it collects are exactly the rows that are    *)
(* not fully empty and lie before that run, in order; it reads no row      *)
(* beyond the tenth row of the run, so data after the run is lost while    *)
(* data after a gap of 9 or fewer rows is kept; and it ends on every       *)
(* finite sheet, the rows past the end of the sheet counting as empty.     *)
(***************************************************************************)
SheetRow(r) == IF r <= Len(sheet) THEN sheet[r] ELSE <<>>
IsEmptyRow(row) == \A i \in 1..Len(row) : row[i] = None
EmptyRun(r) == \A k \in r..(r + 9) : IsEmptyRow(SheetRow(k))

\* the first row of the first run of 10 empty rows
Cut == CHOOSE r \in 1..(Len(sheet) + 1) :
          EmptyRun(r) /\ \A q \in 1..(r - 1) : ~EmptyRun(q)

RECURSIVE NonEmptyBefore(_)
NonEmptyBefore(r) ==
    IF r = 0 THEN <<>>
    ELSE IF IsEmptyRow(sheet[r]) THEN NonEmptyBefore(r - 1)
    ELSE Append(NonEmptyBefore(r - 1), sheet[r])

C14_FallbackCutoff ==
    (phase = "done" /\ environment = "openpyxl") =>
        LET cut == Cut
            kept == NonEmptyBefore(cut - 1)
        IN /\ ScanRows(sheet, 1, 0, <<>>) = kept
           /\ ScanEnd(sheet, 1, 0) = cut + 10
           /\ loaded = load_word_article_pairs(xlsx_path, kept, "openpyxl", orientation)

\* 9 empty rows, a pair, 10 empty rows, another pair: only the first is read
C14_Witness ==
    /\ phase = "done"
    /\ environment = "openpyxl"
    /\ Len(sheet) = 21
    /\ \A r \in 1..9 : IsEmptyRow(sheet[r])
    /\ sheet[10] = << Str(<<"d","e","n">>), Str(<<"d","i","e">>) >>
    /\ \A r \in 11..20 : IsEmptyRow(sheet[r])
    /\ sheet[21] = << Str(<<" ","D","e","r","\t">>), Str(<<"d","i","e">>) >>
    /\ Cut = 11
    /\ loaded = Returned(<< << <<"d","e","n">>, <<"d","i","e">> >> >>)

(***************************************************************************)
(* C15: when the file does not exist the call raises FileNotFoundError,    *)
(* the message of the exception contains the path it was given, no         *)
(* reading strategy has been attempted and no pairs are returned.          *)
(***************************************************************************)
Contains(text, part) ==
    \E i \in 0..(Len(text) - Len(part)) : SubSeq(text, i + 1, i + Len(part)) = part

C15_MissingFile ==
    (phase = "done" /\ environment = "missing") =>
        /\ loaded.kind = "FileNotFoundError"
        /\ Contains(loaded.msg, xlsx_path)
        /\ attempted = <<>>
        /\ loaded.pairs = <<>>

C15_Witness ==
    /\ phase = "done"
    /\ environment = "missing"
    /\ xlsx_path # WordsXlsx
    /\ loaded.kind = "FileNotFoundError"
    /\ Len(loaded.msg) = 22 + Len(xlsx_path)

(***************************************************************************)
(* C16: in every reachable state of the quiz score <= seen, so the         *)
(* accuracy displayed lies between 0 and 100, and the question on display  *)
(* has been credited at most once.                                         *)
(***************************************************************************)
C16_ScoreAtMostSeen ==
    phase = "quiz" =>
        /\ score <= seen
        /\ score_label.acc \in 0..100
        /\ score <= shown.score + 1

(***************************************************************************)
(* C17: no question is skipped: whenever a handler other than start_quiz   *)
(* draws a question, the question it replaces had received a guess, that   *)
(* is, it had been answered wrongly (the quiz was waiting for an           *)
(* acknowledgment) or it had been credited.                                *)
(***************************************************************************)
C17_NoQuestionSkipped ==
    (phase = "quiz" /\ drew /\ last.op # "start_quiz") =>
        \/ prev.waiting_for_next
        \/ prev.score > prev.shown.score

(***************************************************************************)
(* C18: before start_quiz has run, a key press, the digits 1, 2 and 3      *)
(* included, leaves the quiz as it was (score = seen = 0, empty deck, not  *)
(* waiting) and raises no error.                                           *)
(***************************************************************************)
C18_IdleKeys ==
    (phase = "quiz" /\ last.op = "on_key" /\ prev.deck = <<>> /\ prev.btn_start = "normal") =>
        /\ score = 0
        /\ seen = 0
        /\ deck = <<>>
        /\ ~waiting_for_next
        /\ ~drew
        /\ error = ""

(***************************************************************************)
(* C19: between handlers the Next button is enabled exactly when           *)
(* waiting_for_next is true, the three article buttons are enabled         *)
(* exactly when the quiz has been started and waiting_for_next is false,   *)
(* and Start is enabled exactly when the quiz has not been started.        *)
(***************************************************************************)
Started == deck # <<>>

C19_InputGating ==
    phase = "quiz" =>
        /\ (btn_next = "normal") <=> waiting_for_next
        /\ btn_next \in {"normal", "disabled"}
        /\ OptionsEnabled <=> (Started /\ ~waiting_for_next)
        /\ OptionsEnabled \/ OptionsDisabled
        /\ (btn_start = "normal") <=> ~Started
        /\ btn_start \in {"normal", "disabled"}

\* waiting after a wrong guess, and running again after the acknowledgment
C19_Witness ==
    /\ phase = "quiz"
    /\ Acknowledged
    /\ last.op = "next_question"
    /\ prev.btn_next = "normal"
    /\ prev.btn_das = "disabled"
    /\ btn_next = "disabled"
    /\ OptionsEnabled
    /\ btn_start = "disabled"

(***************************************************************************)
(* C20: no handler changes the multiset of pairs, and once the quiz has    *)
(* been started the deck is a permutation of the pairs; the deck changes   *)
(* only when it is shuffled, which happens at the start and after its      *)
(* last element has been drawn, and in between the draws go through the    *)
(* deck one position at a time, so the draws of a lap present every pair   *)
(* exactly once.                                                           *)
(***************************************************************************)
Shuffled == reshuffled \/ last.op = "start_quiz"

C20_DeckIsPermutation ==
    phase = "quiz" =>
        /\ IsPermutation(pairs, prev.pairs)
        /\ Started => IsPermutation(deck, pairs)
        /\ ~Shuffled => deck = prev.deck
        /\ (Shuffled /\ prev.deck # <<>>) => prev.idx = Len(prev.deck)
        /\ drew => /\ <<current_word, current_art>> = deck[idx]
                   /\ idx = IF Shuffled THEN 1 ELSE prev.idx + 1
        /\ ~drew => idx = prev.idx

\* the last draw of the second lap over two different pairs
C20_Witness ==
    /\ phase = "quiz"
    /\ drew
    /\ ~Shuffled
    /\ Len(pairs) = 2
    /\ seen = 4
    /\ idx = 2
    /\ deck[1] # deck[2]
    /\ <<prev.current_word, prev.current_art>> = deck[1]
    /\ <<current_word, current_art>> = deck[2]

====
